---- MODULE Spec2Model ----
(***************************************************************************)
(* Model of cgic_scripts/shotspotter.py: clean_duplicates, the ShotSpotter *)
(* event de-duplication, with gis.sjoin_drop, which it calls.              *)
(*                                                                         *)
(* A data frame is a sequence of rows (records), in the order of the       *)
(* frame.  Times are whole minutes and coordinates whole units of the      *)
(* projected plane.  Arithmetic is exact: a float that the code computes   *)
(* by a division (a mean) is kept as the fraction <<numerator,             *)
(* denominator>> in lowest terms, and the buffer polygon is the ideal      *)
(* 64-gon, its edges known to six decimal places.                          *)
(*                                                                         *)
(* Init draws the arguments of a call, clean_duplicates computes the frames *)
(* of the call, its result and what it prints.  calls is the history of    *)
(* the calls made so far: the arguments and the result of each.            *)
(***************************************************************************)
EXTENDS Integers, Sequences, FiniteSets

VARIABLES df, spatial_buffer, temporal_buffer, verbose, pc,
          only_close_events, graph, with_group_df, result, printed, calls

vars == <<df, spatial_buffer, temporal_buffer, verbose, pc,
          only_close_events, graph, with_group_df, result, printed, calls>>

\* ------------------------------------------------------------------------
\* Bounds of the model and the input domain
\* ------------------------------------------------------------------------
MaxEvents == 3
\* rows of a frame with room for two groups and two events of neither
MaxWideEvents == 6
\* calls of clean_duplicates one after the other, and the rows of their frames
MaxCalls == 3
MaxCallEvents == 2

\* defaults of clean_duplicates(df, spatial_buffer=50, temporal_buffer=2)
DefaultSpatialBuffer == 50
DefaultTemporalBuffer == 2

\* Locations the input events are drawn from.  With a buffer of 50:
\* <<50, 0>> is exactly 50 from <<0, 0>> along an axis, <<30, 40>> is exactly
\* 50 from <<0, 0>> off the axes and 44.7 from <<50, 0>>.
Points == {<<0, 0>>, <<30, 40>>, <<50, 0>>}
\* Times (minutes): the same minute, less than the temporal buffer later,
\* and exactly the temporal buffer later.
Times == 0..DefaultTemporalBuffer
Rounds == {1, 2}
\* Event ids are caller-assigned integers that no two rows share.
\* clean_duplicates only tests two event ids for equality and a group id for
\* its sign, so the ids that are not negative are numbered 0, 1, 2, ... in
\* the order of the rows; a negative id is drawn from NegativeIds.
NegativeIds == {-1}

\* ------------------------------------------------------------------------
\* Arithmetic helpers (pandas / numpy aggregates)
\* ------------------------------------------------------------------------
Abs(n) == IF n < 0 THEN 0 - n ELSE n

RECURSIVE GCD(_, _)
GCD(a, b) == IF b = 0 THEN a ELSE GCD(b, a % b)

\* the float n / d, kept exactly (d > 0)
Frac(n, d) ==
  LET g == GCD(Abs(n), d)
  IN  <<(IF n < 0 THEN 0 - (Abs(n) \div g) ELSE n \div g), d \div g>>

RECURSIVE SumSeq(_)
SumSeq(s) == IF s = <<>> THEN 0 ELSE Head(s) + SumSeq(Tail(s))

RECURSIVE MinSeq(_)
MinSeq(s) ==
  IF Len(s) = 1 THEN Head(s)
  ELSE LET m == MinSeq(Tail(s)) IN IF Head(s) < m THEN Head(s) ELSE m

\* A missing number (NaN).  The rounds of an event are never negative, and
\* a value below zero in a column of rounds stands for a missing one; a
\* missing float is the fraction 0/0.
NaN == 0 - 1
NaNFloat == <<0, 0>>
NotNaN(v) == v # NaN
ToFloat(v) == IF v = NaN THEN NaNFloat ELSE Frac(v, 1)

\* Series.sum(), Series.mean(), Series.min() of a column; sum and mean skip
\* the missing values (skipna=True): the sum of none is 0, the mean of none
\* is missing
SeriesSum(s) == SumSeq(SelectSeq(s, NotNaN))
SeriesMean(s) ==
  IF SelectSeq(s, NotNaN) = <<>> THEN NaNFloat
  ELSE Frac(SumSeq(SelectSeq(s, NotNaN)), Len(SelectSeq(s, NotNaN)))
SeriesMin(s) == MinSeq(s)

\* column of a frame
Column(s, Get(_)) == [i \in 1..Len(s) |-> Get(s[i])]

\* ------------------------------------------------------------------------
\* Geometry: df.buffer(spatial_buffer) and the sjoin predicate
\* ------------------------------------------------------------------------
\* buffer() of a point is not a disc: with the default resolution of 16
\* segments per quarter circle it is the regular 64-gon inscribed in the
\* circle of the given radius, with a vertex on each axis.  Every edge is at
\* the distance radius * cos(pi/64) from the centre; the normals of the
\* edges are at the angles (2j+1)*pi/64.  The polygon is symmetric about the
\* axes and the diagonals, so a displacement is folded into the octant
\* 0 <= b <= a, where only the 8 edges with a normal below 45 degrees can
\* cut it off.  The tables hold the cosines and sines of these 8 normals,
\* times 10^6.
CosTable == <<998795, 989177, 970031, 941544, 903989, 857729, 803208, 740951>>
SinTable == <<49068, 146730, 242980, 336890, 427555, 514103, 595699, 671559>>

\* the point (px, py) intersects buffer(radius) of the point (cx, cy):
\* it is on the inner side of every edge (the boundary included).  A point
\* of the circle inscribed in the polygon, of the radius
\* radius * cos(pi/64), is on the inner side of them all, and
\* cos(pi/64)^2 > 0.997: the edges are only looked at for a point outside
\* that circle.
InBuffer(px, py, cx, cy, radius) ==
  LET dx == Abs(px - cx)
      dy == Abs(py - cy)
      a == IF dx >= dy THEN dx ELSE dy
      b == IF dx >= dy THEN dy ELSE dx
  IN  \/ (dx * dx + dy * dy) * 1000 <= radius * radius * 997
      \/ \A j \in 1..Len(CosTable) :
           a * CosTable[j] + b * SinTable[j] <= radius * CosTable[1]

\* ------------------------------------------------------------------------
\* gis.sjoin_drop: gpd.sjoin(left, right, how='inner'), predicate intersects
\* ------------------------------------------------------------------------
\* the rows of the join for one left row: one per right row whose polygon
\* the left point intersects, the right columns appended
JoinedRows(l, right) ==
  LET Hit(r) == InBuffer(l.x, l.y, r.x, r.y, r.radius)
      hits == SelectSeq(right, Hit)
  IN  [k \in 1..Len(hits) |->
         [event_id |-> l.event_id, event_time |-> l.event_time,
          x |-> l.x, y |-> l.y,
          right_event_id |-> hits[k].right_event_id,
          right_event_time |-> hits[k].right_event_time]]

RECURSIVE sjoin_drop(_, _)
sjoin_drop(left, right) ==
  IF left = <<>> THEN <<>>
  ELSE JoinedRows(Head(left), right) \o sjoin_drop(Tail(left), right)

\* ------------------------------------------------------------------------
\* clean_duplicates, step by step
\* ------------------------------------------------------------------------
\* buffered: right_event_id, right_event_time and the buffer polygon
buffered(d, sb) ==
  [i \in 1..Len(d) |->
     [right_event_id |-> d[i].event_id, right_event_time |-> d[i].event_time,
      x |-> d[i].x, y |-> d[i].y, radius |-> sb]]

close_events(d, sb) == sjoin_drop(d, buffered(d, sb))

close_filter_space(row) == row.event_id # row.right_event_id

\* (a variant of close_filter_time that tests one direction only)
close_filter_time_OneSided(row, between_time) ==
  row.event_time - row.right_event_time < between_time

\* between_time = timedelta(minutes=temporal_buffer)
close_filter_time(row, between_time) ==
  /\ row.event_time - row.right_event_time < between_time
  /\ row.right_event_time - row.event_time < between_time

close_filter(row, tb) == close_filter_space(row) /\ close_filter_time(row, tb)

OnlyCloseEvents(d, sb, tb) ==
  LET Keep(row) == close_filter(row, tb)
  IN  SelectSeq(close_events(d, sb), Keep)

\* s without the repetitions of its elements (Series.unique(), and the node
\* order of nx.Graph: a node keeps the place of its first insertion)
Unique(s) ==
  LET IsFirst(i) == \A j \in 1..(i - 1) : s[j] # s[i]
      firsts == SelectSeq([i \in 1..Len(s) |-> i], IsFirst)
  IN  [k \in 1..Len(firsts) |-> s[firsts[k]]]

\* graph.add_nodes_from(event_id.unique()), then add_edge row by row;
\* add_edge also adds an end point that is not yet a node
RECURSIVE EdgeEnds(_)
EdgeEnds(oce) ==
  IF oce = <<>> THEN <<>>
  ELSE <<Head(oce).event_id, Head(oce).right_event_id>> \o EdgeEnds(Tail(oce))

Graph(oce) ==
  LET GetId(row) == row.event_id
  IN  [nodes |-> Unique(Column(oce, GetId) \o EdgeEnds(oce)),
       edges |-> {{oce[k].event_id, oce[k].right_event_id} : k \in 1..Len(oce)}]

\* nx.connected_components: the components in the order of their first node
RECURSIVE Reach(_, _)
Reach(g, S) ==
  LET T == S \cup {v \in {g.nodes[i] : i \in 1..Len(g.nodes)} :
                     \E u \in S : {u, v} \in g.edges}
  IN  IF T = S THEN S ELSE Reach(g, T)

RECURSIVE ComponentsFrom(_, _, _)
ComponentsFrom(g, k, seen) ==
  IF k > Len(g.nodes) THEN <<>>
  ELSE IF g.nodes[k] \in seen THEN ComponentsFrom(g, k + 1, seen)
  ELSE LET c == Reach(g, {g.nodes[k]})
       IN  <<c>> \o ComponentsFrom(g, k + 1, seen \cup c)

connected_components(g) == ComponentsFrom(g, 1, {})

\* (a variant of GroupId that numbers on from a counter kept across the
\* calls: the groups of the earlier calls are counted too)
GroupId_Kept(k) ==
  0 - (k + SumSeq([c \in 1..Len(calls) |->
                     Cardinality({m \in 1..Len(calls[c].result) :
                                    calls[c].result[m].event_id < 0})]))

\* the group id of the k-th component: enumerate(..., 1) negated
GroupId(k) == 0 - k

\* group_ids: the records (group_id, event_id), one per node of the graph
group_ids(g) ==
  LET comps == connected_components(g)
  IN  UNION {{[group_id |-> GroupId(k), event_id |-> e] : e \in comps[k]} :
               k \in 1..Len(comps)}

\* pd.merge(df, group_df, how='left', on='event_id') and the fillna: every
\* row of df keeps its place and gets the group id recorded for its
\* event_id (a node is in one component, so there is at most one), or its
\* own event_id where group_df has none
WithGroupDf(d, gids) ==
  [i \in 1..Len(d) |->
     LET found == {r \in gids : r.event_id = d[i].event_id}
     IN  [event_id |-> d[i].event_id, event_time |-> d[i].event_time,
          x |-> d[i].x, y |-> d[i].y, rounds |-> d[i].rounds,
          group_id |-> IF found = {} THEN d[i].event_id
                       ELSE (CHOOSE r \in found : TRUE).group_id]]

\* with_group_df[with_group_df.group_id < 0]
IsToGroup(row) == row.group_id < 0
to_group(wg) == SelectSeq(wg, IsToGroup)

\* (a variant of IsSingle that takes the group id 0 for no event's own id)
IsSingle_Positive(row) == row.group_id > 0

\* with_group_df[with_group_df.group_id >= 0]
IsSingle(row) == row.group_id >= 0

\* (a variant of SortedKeys that leaves the keys in decreasing order)
RECURSIVE SortedKeys_Descending(_)
SortedKeys_Descending(S) ==
  IF S = {} THEN <<>>
  ELSE LET m == CHOOSE a \in S : \A b \in S : a >= b
       IN  <<m>> \o SortedKeys_Descending(S \ {m})

\* the keys of a groupby, which sorts them in increasing order
RECURSIVE SortedKeys(_)
SortedKeys(S) ==
  IF S = {} THEN <<>>
  ELSE LET m == CHOOSE a \in S : \A b \in S : a <= b
       IN  <<m>> \o SortedKeys(S \ {m})

GetTime(row) == row.event_time
GetRounds(row) == row.rounds
GetX(row) == row.x
GetY(row) == row.y

\* (variants of the aggregates: the latest time, the number of rows instead
\* of the sum of their rounds, the centroid weighted by the rounds)
min_time_Latest(rows) ==
  LET times == Column(rows, GetTime)
  IN  CHOOSE t \in {times[i] : i \in 1..Len(times)} :
        \A i \in 1..Len(times) : times[i] <= t

total_rounds_Count(rows) == Len(rows)

mean_location_Weighted(rows) ==
  LET w == SumSeq(Column(rows, GetRounds))
      WX(row) == row.x * row.rounds
      WY(row) == row.y * row.rounds
  IN  <<Frac(SumSeq(Column(rows, WX)), w), Frac(SumSeq(Column(rows, WY)), w)>>

min_time(rows) == SeriesMin(Column(rows, GetTime))
mean_rounds(rows) == SeriesMean(Column(rows, GetRounds))
total_rounds(rows) == SeriesSum(Column(rows, GetRounds))
\* Point(x.x.mean(), x.y.mean())
mean_location(rows) ==
  <<SeriesMean(Column(rows, GetX)), SeriesMean(Column(rows, GetY))>>

\* (a variant of grouped_events_df that aggregates to_group as a whole,
\* without the groupby: one record, whatever the rows)
grouped_events_df_Whole(wg) ==
  LET rows == to_group(wg)
  IN  <<[event_id |-> GroupId(1),
         event_time |-> IF rows = <<>> THEN NaN ELSE min_time(rows),
         mean_rounds |-> mean_rounds(rows),
         total_rounds |-> total_rounds(rows),
         geometry |-> mean_location(rows)]>>

\* grouped_events_df: one row per group id of to_group, the group id in the
\* event_id column after reset_index
grouped_events_df(wg) ==
  LET tg == to_group(wg)
      keys == SortedKeys({tg[i].group_id : i \in 1..Len(tg)})
  IN  [k \in 1..Len(keys) |->
         LET InGroup(row) == row.group_id = keys[k]
             rows == SelectSeq(tg, InGroup)
         IN  [event_id |-> keys[k],
              event_time |-> min_time(rows),
              mean_rounds |-> mean_rounds(rows),
              total_rounds |-> total_rounds(rows),
              geometry |-> mean_location(rows)]]

\* single_events_df: the rows that are in no group, with the two rounds
\* columns added (floats after the concat with the grouped rows)
single_events_df(wg) ==
  LET se == SelectSeq(wg, IsSingle)
  IN  [k \in 1..Len(se) |->
         [event_id |-> se[k].event_id,
          event_time |-> se[k].event_time,
          mean_rounds |-> ToFloat(se[k].rounds),
          total_rounds |-> se[k].rounds,
          geometry |-> <<Frac(se[k].x, 1), Frac(se[k].y, 1)>>]]

\* pd.concat([single_events_df, grouped_events_df])
Concat(wg) == single_events_df(wg) \o grouped_events_df(wg)

\* ------------------------------------------------------------------------
\* The state machine: an input frame, then one call of clean_duplicates
\* ------------------------------------------------------------------------
\* the input frames: at most MaxEvents rows, no event_id on two rows
IdColumn(n, neg) ==
  [i \in 1..n |->
     IF i \in DOMAIN neg THEN neg[i]
     ELSE Cardinality({j \in 1..(i - 1) : j \notin DOMAIN neg})]

IdColumns(n) ==
  {IdColumn(n, neg) :
     neg \in UNION {{f \in [N -> NegativeIds] :
                       \A i, j \in N : i # j => f[i] # f[j]} :
                    N \in SUBSET (1..n)}}

Frame(ids, t, p, r) ==
  [i \in 1..Len(ids) |->
     [event_id |-> ids[i], event_time |-> t[i],
      x |-> p[i][1], y |-> p[i][2], rounds |-> r[i]]]

NoFrame == <<>>
NoGraph == [nodes |-> <<>>, edges |-> {}]
NoOutput == <<>>

\* ------------------------------------------------------------------------
\* What clean_duplicates prints with verbose on, line by line
\* ------------------------------------------------------------------------
\* Counter(len(c) for c in nx.connected_components(graph)), as the lines
\* printed for it: a size and the number of components of that size, in the
\* order of the sizes
SizeLines(comps) ==
  LET sizes == SortedKeys({Cardinality(comps[k]) : k \in 1..Len(comps)})
  IN  [n \in 1..Len(sizes) |->
         <<"size", sizes[n],
           Cardinality({k \in 1..Len(comps) : Cardinality(comps[k]) = sizes[n]})>>]

\* (a variant of CloseCount that counts the retained rows, len(...), instead
\* of the distinct ids on their left side)
CloseCount_Rows(oce) == Len(oce)

\* only_close_events.event_id.nunique()
CloseCount(oce) ==
  LET GetId(row) == row.event_id
  IN  Len(Unique(Column(oce, GetId)))

\* len(grouped_events_df) + len(single_events_df)
RetainedCount(wg) == Len(grouped_events_df(wg)) + Len(single_events_df(wg))

Printed(d, oce, g, wg) ==
  <<<<"before", Len(d)>>, <<"close", CloseCount(oce)>>>>
    \o SizeLines(connected_components(g))
    \o <<<<"retained", RetainedCount(wg)>>>>

\* ------------------------------------------------------------------------
\* The calls
\* ------------------------------------------------------------------------
\* the state before a call, its arguments apart
Called ==
  /\ pc = "start"
  /\ only_close_events = NoFrame
  /\ graph = NoGraph
  /\ with_group_df = NoFrame
  /\ result = NoFrame
  /\ printed = NoOutput
  /\ calls = <<>>

\* one call with the default buffers, verbose off, on a frame of at most
\* MaxEvents rows
Init ==
  /\ \E n \in 0..MaxEvents :
       \E ids \in IdColumns(n), t \in [1..n -> Times],
          p \in [1..n -> Points], r \in [1..n -> Rounds] :
         df = Frame(ids, t, p, r)
  /\ spatial_buffer = DefaultSpatialBuffer
  /\ temporal_buffer = DefaultTemporalBuffer
  /\ verbose = FALSE
  /\ Called

\* clean_duplicates(df, spatial_buffer, temporal_buffer, verbose)
clean_duplicates ==
  /\ pc = "start"
  /\ \E oce \in {OnlyCloseEvents(df, spatial_buffer, temporal_buffer)} :
       \E g \in {Graph(oce)} :
         \E wg \in {WithGroupDf(df, group_ids(g))} :
           \E res \in {Concat(wg)} :
             /\ only_close_events' = oce
             /\ graph' = g
             /\ with_group_df' = wg
             /\ result' = res
             /\ printed' = IF verbose THEN Printed(df, oce, g, wg) ELSE NoOutput
             /\ calls' = Append(calls, [df |-> df,
                                        spatial_buffer |-> spatial_buffer,
                                        temporal_buffer |-> temporal_buffer,
                                        result |-> res])
  /\ pc' = "done"
  /\ UNCHANGED <<df, spatial_buffer, temporal_buffer, verbose>>

Next == clean_duplicates

Spec == Init /\ [][Next]_vars

\* A call on a frame in which rows may share an event_id: clean_duplicates
\* takes any frame with the columns it reads, and nothing before line 56
\* looks at the ids.
DupIds == 0..1
DupPoints == {<<0, 0>>, <<50, 0>>}
DupTimes == 0..1

InitDup ==
  /\ \E n \in 0..MaxEvents :
       \E ids \in [1..n -> DupIds], t \in [1..n -> DupTimes],
          p \in [1..n -> DupPoints], r \in [1..n -> Rounds] :
         df = Frame(ids, t, p, r)
  /\ spatial_buffer = DefaultSpatialBuffer
  /\ temporal_buffer = DefaultTemporalBuffer
  /\ verbose = FALSE
  /\ Called

SpecDup == InitDup /\ [][Next]_vars

\* A call on a frame in which an event may have no rounds value (NaN in the
\* rounds column); the ids are 0, 1, 2, ... in the order of the rows.
InitNaN ==
  /\ \E n \in 0..MaxEvents :
       \E t \in [1..n -> DupTimes], p \in [1..n -> DupPoints],
          r \in [1..n -> Rounds \cup {NaN}] :
         df = Frame(IdColumn(n, <<>>), t, p, r)
  /\ spatial_buffer = DefaultSpatialBuffer
  /\ temporal_buffer = DefaultTemporalBuffer
  /\ verbose = FALSE
  /\ Called

SpecNaN == InitNaN /\ [][Next]_vars

\* A call on a frame of at most MaxWideEvents events at one place: events
\* of the same minute are close, events of different minutes of WideTimes
\* are not, so a frame can hold several groups.
WideTimes == {0, 3, 6, 9}
WidePoints == {<<0, 0>>}
WideRounds == {1}

InitWide ==
  /\ \E n \in 0..MaxWideEvents :
       \E ids \in IdColumns(n), t \in [1..n -> WideTimes],
          p \in [1..n -> WidePoints], r \in [1..n -> WideRounds] :
         df = Frame(ids, t, p, r)
  /\ spatial_buffer = DefaultSpatialBuffer
  /\ temporal_buffer = DefaultTemporalBuffer
  /\ verbose = FALSE
  /\ Called

SpecWide == InitWide /\ [][Next]_vars

\* Calls one after the other, each on a frame of its own: events at one
\* place, in the same minute or three minutes apart, with the ids 0, 1, ...
CallTimes == {0, 3}

CallFrames ==
  UNION {{Frame(IdColumn(n, <<>>), t, [i \in 1..n |-> <<0, 0>>], [i \in 1..n |-> 1]) :
            t \in [1..n -> CallTimes]} : n \in 0..MaxCallEvents}

InitCalls ==
  /\ df \in CallFrames
  /\ spatial_buffer = DefaultSpatialBuffer
  /\ temporal_buffer = DefaultTemporalBuffer
  /\ verbose = FALSE
  /\ Called

\* the caller, after a call has returned, calls clean_duplicates again on
\* some frame: the names of the function body are bound afresh
call_again ==
  /\ pc = "done"
  /\ Len(calls) < MaxCalls
  /\ df' \in CallFrames
  /\ pc' = "start"
  /\ only_close_events' = NoFrame
  /\ graph' = NoGraph
  /\ with_group_df' = NoFrame
  /\ result' = NoFrame
  /\ printed' = NoOutput
  /\ UNCHANGED <<spatial_buffer, temporal_buffer, verbose, calls>>

NextCalls == clean_duplicates \/ call_again

SpecCalls == InitCalls /\ [][NextCalls]_vars

\* A call with verbose on, on a frame of at most MaxWideEvents events at
\* one place, with room for components of different sizes.
VerboseTimes == {0, 3, 6}

InitVerbose ==
  /\ \E n \in 0..MaxWideEvents :
       \E ids \in IdColumns(n), t \in [1..n -> VerboseTimes],
          p \in [1..n -> WidePoints], r \in [1..n -> WideRounds] :
         df = Frame(ids, t, p, r)
  /\ spatial_buffer = DefaultSpatialBuffer
  /\ temporal_buffer = DefaultTemporalBuffer
  /\ verbose = TRUE
  /\ Called

SpecVerbose == InitVerbose /\ [][Next]_vars

\* A call with a temporal buffer of 0, 1 or 2 minutes on a frame of at most
\* MaxWideEvents events at one place: events one minute apart are close
\* with the buffer 2 and not with the buffer 1.
TemporalBuffers == 0..DefaultTemporalBuffer
BufferTimes == {0, 1, 3, 6}

InitBuffers ==
  /\ \E n \in 0..MaxWideEvents :
       \E ids \in IdColumns(n), t \in [1..n -> BufferTimes],
          p \in [1..n -> WidePoints], r \in [1..n -> WideRounds] :
         df = Frame(ids, t, p, r)
  /\ spatial_buffer = DefaultSpatialBuffer
  /\ temporal_buffer \in TemporalBuffers
  /\ verbose = FALSE
  /\ Called

SpecBuffers == InitBuffers /\ [][Next]_vars

\* ------------------------------------------------------------------------
\* Vocabulary of the properties
\* ------------------------------------------------------------------------
Done == pc = "done"
InputRows == 1..Len(df)
OutputRows == 1..Len(result)

\* the input rows that the output record k stands for: the rows that
\* clean_duplicates gave the group id the record carries
Members(k) ==
  {i \in 1..Len(with_group_df) : with_group_df[i].group_id = result[k].event_id}

\* a record of the grouped part of the output
IsMerged(k) == result[k].event_id < 0

RECURSIVE SumOver(_, _)
SumOver(S, f) ==
  IF S = {} THEN 0
  ELSE LET a == CHOOSE b \in S : TRUE IN f[a] + SumOver(S \ {a}, f)

\* the closeness of the specification: Euclidean distance at most the
\* spatial buffer, and less than the temporal buffer apart in time
EuclidClose(a, b) ==
  (a.x - b.x) * (a.x - b.x) + (a.y - b.y) * (a.y - b.y)
    <= spatial_buffer * spatial_buffer
TimeClose(a, b) == Abs(a.event_time - b.event_time) < temporal_buffer

\* the two ids are the ends of an edge of the graph
Linked(a, b) == {a, b} \in graph.edges

\* a chain of edges of the graph leads from the id a to the id b
Chained(a, b) == a # b /\ b \in Reach(graph, {a})

\* the input row i has no other row within both buffers
Isolated(i) ==
  \A j \in InputRows :
    j # i => ~(EuclidClose(df[i], df[j]) /\ TimeClose(df[i], df[j]))

\* the output record of the input row i passed through unchanged
Passthrough(i) ==
  [event_id |-> df[i].event_id,
   event_time |-> df[i].event_time,
   mean_rounds |-> <<df[i].rounds, 1>>,
   total_rounds |-> df[i].rounds,
   geometry |-> <<<<df[i].x, 1>>, <<df[i].y, 1>>>>]

\* the input rows S are two or more and their ids are a connected component
IsComponent(S) ==
  /\ Cardinality(S) >= 2
  /\ \E c \in {connected_components(graph)[n] :
                 n \in 1..Len(connected_components(graph))} :
       c = {df[i].event_id : i \in S}

\* two rows of the frame share an event_id
HasDuplicateIds(d) ==
  \E i, j \in 1..Len(d) : i # j /\ d[i].event_id = d[j].event_id

\* a row of the frame has no rounds value
HasMissingRounds(d) == \E i \in 1..Len(d) : d[i].rounds = NaN

\* with_group_df as lines 56-110 compute it from the arguments of a call
WithGroups(d, sb, tb) == WithGroupDf(d, group_ids(Graph(OnlyCloseEvents(d, sb, tb))))

\* the partition of the events that a with_group_df stands for: the sets of
\* the event ids of the rows with the same group id
Partition(wg) ==
  {{wg[i].event_id : i \in {j \in 1..Len(wg) : wg[j].group_id = wg[k].group_id}} :
     k \in 1..Len(wg)}

\* the rows of the frame d in another order: row i is the row f[i] of d
Perms(n) == {f \in [1..n -> 1..n] : \A i, j \in 1..n : i # j => f[i] # f[j]}
Permuted(d, f) == [i \in 1..Len(d) |-> d[f[i]]]

\* the values of an output record, its id apart
Values(rec) ==
  <<rec.event_time, rec.mean_rounds, rec.total_rounds, rec.geometry>>

\* the two outputs hold the same values the same number of times
SameValues(r1, r2) ==
  /\ Len(r1) = Len(r2)
  /\ \A k \in 1..Len(r1) :
       Cardinality({m \in 1..Len(r1) : Values(r1[m]) = Values(r1[k])})
         = Cardinality({m \in 1..Len(r2) : Values(r2[m]) = Values(r1[k])})

\* the place in df of the event with the given id
RowOf(id) == CHOOSE i \in InputRows : df[i].event_id = id

\* the passthrough records of the result are in the order of their events
\* in df
PassthroughInInputOrder ==
  \A k1, k2 \in OutputRows :
    (k1 < k2 /\ ~IsMerged(k1) /\ ~IsMerged(k2)) =>
      RowOf(result[k1].event_id) < RowOf(result[k2].event_id)

\* what the printed lines report: the number of close events, the lines of
\* the histogram of component sizes (size, count), the retained events
ReportedClose == printed[2][2]
ReportedSizes == SubSeq(printed, 3, Len(printed) - 1)
ReportedRetained == printed[Len(printed)][2]

\* ------------------------------------------------------------------------
\* C1  Partition completeness: after clean_duplicates, every input row is
\* kept by the merge and accounted for by exactly one output record (the
\* record that carries the row's group id), and every output record accounts
\* for at least one input row: no event is dropped, none is counted twice.
\* ------------------------------------------------------------------------
C1_PartitionComplete ==
  Done =>
    /\ Len(with_group_df) = Len(df)
    /\ \A i \in InputRows :
         /\ with_group_df[i].event_id = df[i].event_id
         /\ Cardinality({k \in OutputRows :
                           result[k].event_id = with_group_df[i].group_id}) = 1
    /\ \A k \in OutputRows : Members(k) # {}

\* a run of three events, two merged into one record and the third passed
\* through
C1_Witness ==
  /\ Done
  /\ Len(df) = 3
  /\ Len(result) = 2
  /\ \E k \in OutputRows : IsMerged(k) /\ Cardinality(Members(k)) = 2

\* ------------------------------------------------------------------------
\* C2  Closeness predicate (as claimed): two input events with different ids
\* are joined by an edge of the graph if and only if their Euclidean
\* distance is at most spatial_buffer and their times differ by less than
\* temporal_buffer; no event is linked to itself.
\* ------------------------------------------------------------------------
C2_EdgeIffEuclidAndTime ==
  Done =>
    \A i, j \in InputRows :
      /\ ~Linked(df[i].event_id, df[i].event_id)
      /\ df[i].event_id # df[j].event_id =>
           (Linked(df[i].event_id, df[j].event_id)
              <=> (EuclidClose(df[i], df[j]) /\ TimeClose(df[i], df[j])))

\* ------------------------------------------------------------------------
\* C3  Groups are the connected components (as claimed): two different
\* input events are in the same merged output record if and only if a chain
\* of retained pairs links them.
\* ------------------------------------------------------------------------
C3_GroupsAreComponents ==
  Done =>
    \A i, j \in InputRows :
      i # j =>
        ((\E k \in OutputRows : IsMerged(k) /\ i \in Members(k) /\ j \in Members(k))
           <=> Chained(df[i].event_id, df[j].event_id))

\* ------------------------------------------------------------------------
\* C4  Symmetry: only_close_events holds the row (A, B) if and only if it
\* holds the row (B, A), and the nodes of the graph are the ids on either
\* side of a retained pair.
\* ------------------------------------------------------------------------
C4_Symmetry ==
  Done =>
    /\ \A k \in 1..Len(only_close_events) :
         \E m \in 1..Len(only_close_events) :
           /\ only_close_events[m].event_id = only_close_events[k].right_event_id
           /\ only_close_events[m].right_event_id = only_close_events[k].event_id
    /\ {graph.nodes[n] : n \in 1..Len(graph.nodes)}
         = {only_close_events[k].event_id : k \in 1..Len(only_close_events)}
             \cup {only_close_events[k].right_event_id :
                     k \in 1..Len(only_close_events)}

\* a run that retained a pair of events at different times and different
\* places
C4_Witness ==
  /\ Done
  /\ \E k \in 1..Len(only_close_events) :
       /\ only_close_events[k].event_time # only_close_events[k].right_event_time
       /\ \E i, j \in InputRows :
            /\ df[i].event_id = only_close_events[k].event_id
            /\ df[j].event_id = only_close_events[k].right_event_id
            /\ <<df[i].x, df[i].y>> # <<df[j].x, df[j].y>>

\* ------------------------------------------------------------------------
\* C5  The event_time of a merged output record is the earliest event_time
\* of the input rows it stands for: no member is earlier, and one member
\* has that very time.
\* ------------------------------------------------------------------------
C5_MinTime ==
  Done =>
    \A k \in OutputRows :
      IsMerged(k) =>
        /\ \A i \in Members(k) : result[k].event_time <= df[i].event_time
        /\ \E i \in Members(k) : result[k].event_time = df[i].event_time

\* a merged record of members with different times
C5_Witness ==
  /\ Done
  /\ \E k \in OutputRows :
       /\ IsMerged(k)
       /\ \E i, j \in Members(k) : df[i].event_time < df[j].event_time

\* ------------------------------------------------------------------------
\* C6  The total_rounds of a merged output record with n members is the sum
\* of the members' rounds, every member counted once, and its mean_rounds
\* is that sum divided by n: n * mean_rounds = total_rounds.
\* ------------------------------------------------------------------------
C6_Rounds ==
  Done =>
    \A k \in OutputRows :
      IsMerged(k) =>
        LET n == Cardinality(Members(k))
            total == SumOver(Members(k), [i \in InputRows |-> df[i].rounds])
        IN  /\ result[k].total_rounds = total
            /\ result[k].mean_rounds[2] > 0
            /\ n * result[k].mean_rounds[1] = total * result[k].mean_rounds[2]

\* a merged record of members with different rounds
C6_Witness ==
  /\ Done
  /\ \E k \in OutputRows :
       /\ IsMerged(k)
       /\ \E i, j \in Members(k) : df[i].rounds < df[j].rounds

\* ------------------------------------------------------------------------
\* C7  The location of a merged output record with n members is the
\* unweighted mean of the members' coordinates: n * x = sum of the members'
\* x and n * y = sum of the members' y, whatever their rounds and times.
\* ------------------------------------------------------------------------
C7_Centroid ==
  Done =>
    \A k \in OutputRows :
      IsMerged(k) =>
        LET n == Cardinality(Members(k))
            sx == SumOver(Members(k), [i \in InputRows |-> df[i].x])
            sy == SumOver(Members(k), [i \in InputRows |-> df[i].y])
            gx == result[k].geometry[1]
            gy == result[k].geometry[2]
        IN  /\ gx[2] > 0 /\ n * gx[1] = sx * gx[2]
            /\ gy[2] > 0 /\ n * gy[1] = sy * gy[2]

\* a merged record of members at different places with different rounds
C7_Witness ==
  /\ Done
  /\ \E k \in OutputRows :
       /\ IsMerged(k)
       /\ \E i, j \in Members(k) :
            /\ df[i].rounds < df[j].rounds
            /\ df[i].x # df[j].x
            /\ df[i].y # df[j].y

\* ------------------------------------------------------------------------
\* C8  Passthrough (as claimed): an input event with no other event within
\* both buffers is in the output as exactly one record with its own
\* event_id, event_time and location and mean_rounds = total_rounds = its
\* rounds.
\* ------------------------------------------------------------------------
C8_IsolatedPassThrough ==
  Done =>
    \A i \in InputRows :
      Isolated(i) =>
        Cardinality({k \in OutputRows : result[k] = Passthrough(i)}) = 1

\* ------------------------------------------------------------------------
\* C9  Sign tagging (as claimed): an output record has a negative event_id
\* if and only if it stands for a connected component of two or more input
\* events; every other output record carries the event_id of exactly one
\* input event.
\* ------------------------------------------------------------------------
C9_NegativeIffGrouped ==
  Done =>
    \A k \in OutputRows :
      /\ IsMerged(k) <=> IsComponent(Members(k))
      /\ ~IsMerged(k) =>
           Cardinality({i \in InputRows : df[i].event_id = result[k].event_id}) = 1

\* ------------------------------------------------------------------------
\* C10  Synthetic group ids (as claimed): every connected component gets a
\* negative id, two components never get the same id, and no group id is
\* the event_id of an input event.
\* ------------------------------------------------------------------------
C10_GroupIdsFresh ==
  Done =>
    LET comps == connected_components(graph)
    IN  /\ \A m \in 1..Len(comps) : GroupId(m) < 0
        /\ \A m, n \in 1..Len(comps) : m # n => GroupId(m) # GroupId(n)
        /\ \A m \in 1..Len(comps) :
             \A i \in InputRows : df[i].event_id # GroupId(m)

\* ------------------------------------------------------------------------
\* C11  Duplicate ids are rejected (as claimed): a call on a frame in which
\* two rows share an event_id fails and returns nothing, so a call that
\* has returned a result was made on a frame without a repeated event_id.
\* ------------------------------------------------------------------------
C11_DuplicateIdsRejected == Done => ~HasDuplicateIds(df)

\* ------------------------------------------------------------------------
\* C12  Malformed records fail fast (as claimed): a call on a frame in
\* which an event lacks its rounds value fails and returns nothing, so a
\* call that has returned a result was made on a frame in which every event
\* has its rounds; no result has skipped a missing value.
\* ------------------------------------------------------------------------
C12_MalformedRejected == Done => ~HasMissingRounds(df)

C14_Cardinality ==
  Done =>
    Len(result)
      = Len(connected_components(graph))
          + Cardinality({i \in InputRows :
                           \A n \in 1..Len(graph.nodes) :
                             graph.nodes[n] # df[i].event_id})

\* ------------------------------------------------------------------------
\* C15  Input-order independence (as claimed): clean_duplicates called on
\* the rows of df in any other order groups the events into the same
\* partition and returns the same collection of (event_time, mean_rounds,
\* total_rounds, location) values as the call on df.
\* ------------------------------------------------------------------------
C15_OrderIndependent ==
  Done =>
    \A f \in Perms(Len(df)) :
      \A wg \in {WithGroups(Permuted(df, f), spatial_buffer, temporal_buffer)} :
        /\ Partition(wg) = Partition(with_group_df)
        /\ SameValues(Concat(wg), result)

\* ------------------------------------------------------------------------
\* C16  Output ordering (as claimed): the passthrough records are in the
\* order of their events in the input, and the merged records are in the
\* order in which their group ids were assigned: the record of the m-th
\* component before the record of the n-th when m < n (-1, then -2, ...).
\* ------------------------------------------------------------------------
C16_AssignmentOrder ==
  Done =>
    /\ PassthroughInInputOrder
    /\ \A m, n \in 1..Len(connected_components(graph)) :
         \A k1, k2 \in OutputRows :
           (m < n /\ result[k1].event_id = GroupId(m)
                  /\ result[k2].event_id = GroupId(n)) => k1 < k2

\* ------------------------------------------------------------------------
\* C16  Output ordering (amended): the passthrough records are in the
\* order of their events in the input, and the merged records are in
\* increasing order of their group ids, which is the reverse of the order
\* of assignment: the record of the n-th component before the record of
\* the m-th when m < n (-2 before -1).
\* ------------------------------------------------------------------------
C16_OutputOrder ==
  Done =>
    /\ PassthroughInInputOrder
    /\ \A k1, k2 \in OutputRows :
         (k1 < k2 /\ IsMerged(k1) /\ IsMerged(k2)) =>
           result[k1].event_id < result[k2].event_id
    /\ \A m, n \in 1..Len(connected_components(graph)) :
         \A k1, k2 \in OutputRows :
           (m < n /\ result[k1].event_id = GroupId(m)
                  /\ result[k2].event_id = GroupId(n)) => k2 < k1

\* a result with the records of two components and of two events passed
\* through
C16_Witness ==
  /\ Done
  /\ Len(connected_components(graph)) = 2
  /\ \E k1, k2 \in OutputRows :
       /\ k1 < k2
       /\ result[k1].event_id = GroupId(2)
       /\ result[k2].event_id = GroupId(1)
  /\ \E k1, k2 \in OutputRows :
       /\ k1 < k2
       /\ ~IsMerged(k1)
       /\ ~IsMerged(k2)

\* ------------------------------------------------------------------------
\* C17  No state carries over between runs: whatever calls were made, two
\* calls with the same arguments have returned the same result, group ids
\* included, whichever calls came between them; and when a call returns,
\* df is the frame the call was given and the result is the one recorded.
\* ------------------------------------------------------------------------
C17_NoCarryOver ==
  /\ \A a, b \in 1..Len(calls) :
       (/\ calls[a].df = calls[b].df
        /\ calls[a].spatial_buffer = calls[b].spatial_buffer
        /\ calls[a].temporal_buffer = calls[b].temporal_buffer)
         => calls[a].result = calls[b].result
  /\ Done =>
       /\ calls[Len(calls)].df = df
       /\ calls[Len(calls)].result = result

\* three calls have returned: the first and the third on the same frame,
\* the second on another, and the first two have each merged a group
C17_Witness ==
  /\ Done
  /\ Len(calls) = 3
  /\ calls[1].df = calls[3].df
  /\ calls[2].df # calls[1].df
  /\ \E m \in 1..Len(calls[1].result) : calls[1].result[m].event_id < 0
  /\ \E m \in 1..Len(calls[2].result) : calls[2].result[m].event_id < 0

\* ------------------------------------------------------------------------
\* C18  Diagnostics consistency: with verbose on, the reported number of
\* events close to another event is the number of distinct left-side ids of
\* the retained pairs, which is the number of nodes of the graph and the sum
\* of size * count over the reported histogram; every reported size is at
\* least 2; and the reported number of retained events is the number of
\* records returned.
\* ------------------------------------------------------------------------
C18_Diagnostics ==
  (Done /\ verbose) =>
    /\ ReportedClose
         = Cardinality({only_close_events[k].event_id :
                          k \in 1..Len(only_close_events)})
    /\ ReportedClose = Len(graph.nodes)
    /\ ReportedClose
         = SumSeq([k \in 1..Len(ReportedSizes) |->
                     ReportedSizes[k][2] * ReportedSizes[k][3]])
    /\ \A k \in 1..Len(ReportedSizes) :
         ReportedSizes[k][1] = "size" /\ ReportedSizes[k][2] >= 2
    /\ ReportedRetained = Len(result)

\* a verbose call that reported components of two sizes, one of them with
\* three events, and retained a passthrough event as well
C18_Witness ==
  /\ Done
  /\ verbose
  /\ Len(ReportedSizes) = 2
  /\ \E k \in 1..Len(ReportedSizes) : ReportedSizes[k][2] = 3
  /\ ReportedClose = 5
  /\ ReportedRetained = 3

\* ------------------------------------------------------------------------
\* C19  Monotonicity in the buffers (as claimed): for the frame of the
\* call and any temporal buffer at least as large as the call's, every
\* group of the call's partition is inside one group of the partition that
\* clean_duplicates makes with the larger buffer, and the larger buffer
\* gives no more records; with temporal_buffer = 0 no pair is retained and
\* every event is passed through.
\* ------------------------------------------------------------------------
C19_Monotone ==
  Done =>
    /\ \A tb \in TemporalBuffers :
         tb >= temporal_buffer =>
           \A wg \in {WithGroups(df, spatial_buffer, tb)} :
             /\ \A g \in Partition(with_group_df) :
                  \E h \in Partition(wg) : g \subseteq h
             /\ Len(Concat(wg)) <= Len(result)
    /\ temporal_buffer = 0 =>
         /\ only_close_events = <<>>
         /\ Len(result) = Len(df)
         /\ \A i \in InputRows : \E k \in OutputRows : result[k] = Passthrough(i)

====
